---- MODULE Spec2Model ----
(***************************************************************************)
(* A model of cleanvid's subtitle scrub and mute-list construction         *)
(* (VidCleaner.CreateCleanSubAndMuteList, src/src/cleanvid/cleanvid.py).   *)
(*                                                                         *)
(* Times are SubRipTime ordinals: whole milliseconds.  A cue text is a     *)
(* sequence of tokens separated by single blanks; a token is a word, a     *)
(* styling tag, a mask such as "*****" or the empty string left by an      *)
(* empty replacement.  A vocabulary line is a sequence of characters       *)
(* grouped into tokens, the token "|" being the separator character.       *)
(***************************************************************************)
EXTENDS Integers, Sequences, FiniteSets, TLC

\* ------------------------------------------------------------------ bounds

\* Largest number of real cues of an input track.
MaxCues == 3

\* Largest number of VidCleaner instances one process creates (SpecProc).
MaxRuns == 2

\* ------------------------------------------------------------ input domains

\* Cue texts of the input tracks: a clean one, a dirty one, a styled one in
\* another letter case.
CueTexts == { <<"hi">>, <<"heck">>, <<"<i>", "HECK">> }

\* Distance from the previous cue's end (from 0 for the first cue) to a
\* cue's start, and the length of a cue, in milliseconds.
Gaps == {200, 2000}
CueLens == {1000}

\* --pad values, already in milliseconds (round(swearsPadSec * 1000.0)).
Pads == {0, 1500}

\* Vocabulary files: sequences of lines, none of them blank.
SwearsFiles ==
    { << >>,
      << <<"heck">> >>,
      << <<"heck", "|", "darn">>, <<"darn", "|", "gosh">> >>,
      << <<"heck", "|", "heck">> >>,
      << <<"fin">>, <<"heck", "|">> >>,
      << <<"Heck", "|", "gosh">>, <<"heck", "|", "darn">> >> }

\* ------------------------------------------------------------- text helpers

\* str.lower() on the tokens of the model.
Lower(t) ==
    CASE t = "HECK" -> "heck"
      [] t = "Heck" -> "heck"
      [] t = "Fin"  -> "fin"
      [] OTHER      -> t

\* Whether a token holds a word character, so that \b matches in it.
HasWord(t) == t \notin {"", "*****", "****"}

\* Whether a token is styling markup.
IsTag(t) == t \in {"<i>", "</i>"}

\* None, for a value that is otherwise a one-element sequence.
NoneValue == << >>

\* itertools recipe: s -> (s0,s1), (s1,s2), ...
pairwise(s) == [k \in 1..(Len(s) - 1) |-> <<s[k], s[k + 1]>>]

\* ------------------------------------------- CaselessDictionary (swearsMap)

\* The dictionary is a sequence of entries in insertion order; an entry is
\* stored under its lower-cased key and keeps the key as written.
EmptyMap == << >>

HasKey(map, key) == \E k \in 1..Len(map) : map[k].lk = Lower(key)

IndexOfKey(map, key) == CHOOSE k \in 1..Len(map) : map[k].lk = Lower(key)

\* map[key] = val: an existing entry keeps its place and takes the new
\* spelling and value; a new one goes to the end.
SetItem(map, key, val) ==
    LET e == [lk |-> Lower(key), key |-> key, val |-> val]
    IN  IF HasKey(map, key)
        THEN [map EXCEPT ![IndexOfKey(map, key)] = e]
        ELSE Append(map, e)

\* map[key], for a key the dictionary holds.
GetItem(map, key) == map[IndexOfKey(map, key)].val

\* map.keys(): the keys as written, in insertion order.
Keys(map) == [k \in 1..Len(map) |-> map[k].key]

\* ------------------------------------------------------ loading the vocabulary

\* line.split("|"): the fields between the separators.  A field of the
\* model holds at most one token; a missing one is the empty string.
RECURSIVE Split(_)
Split(line) ==
    IF line = << >> THEN << "" >>
    ELSE IF Head(line) = "|" THEN << "" >> \o Split(Tail(line))
    ELSE IF Len(line) = 1 THEN << Head(line) >>
    ELSE IF line[2] = "|" THEN << Head(line) >> \o Split(Tail(Tail(line)))
    ELSE << Head(line) >> \o Split(Tail(line))

\* One turn of the loop over the lines.
LoadLine(map, line) ==
    LET lineMap == Split(line)
    IN  IF Len(lineMap) > 1
        THEN SetItem(map, lineMap[1], lineMap[2])
        ELSE SetItem(map, lineMap[1], "*****")

\* The loop over the lines, writing into the dictionary it is given.
RECURSIVE LoadSwears(_, _)
LoadSwears(map, lines) ==
    IF lines = << >> THEN map
    ELSE LoadSwears(LoadLine(map, Head(lines)), Tail(lines))

\* ------------------------------------------------------------- the matcher

\* The alternatives of \b(k1|k2|...)\b: the joined keys; the join of no keys
\* is the empty string, which leaves one alternative, the empty one.
Alternatives(map) == IF Len(map) = 0 THEN << "" >> ELSE Keys(map)

\* The match without re.IGNORECASE.
AltMatchesCaseSensitive(p, t) == IF p = "" THEN TRUE ELSE p = t

\* Whether alternative p matches at the word of token t (re.IGNORECASE);
\* the empty alternative matches the empty string at any word boundary.
AltMatches(p, t) == IF p = "" THEN TRUE ELSE Lower(p) = Lower(t)

\* What replacer.sub(lambda x: swearsMap[x.group()], ...) makes of one token:
\* the first alternative that matches decides x.group(); a group that is
\* not a key raises KeyError.
SubToken(map, t) ==
    LET alts == Alternatives(map)
        hits == {k \in 1..Len(alts) : AltMatches(alts[k], t)}
    IN  IF ~HasWord(t) \/ hits = {}
        THEN [ok |-> TRUE, tok |-> t]
        ELSE LET first == CHOOSE k \in hits : \A j \in hits : k <= j
                 group == IF alts[first] = "" THEN "" ELSE t
             IN  IF ~HasKey(map, group)
                 THEN [ok |-> FALSE, tok |-> t]
                 ELSE [ok |-> TRUE, tok |-> GetItem(map, group)]

\* replacer.sub over a whole text.  ok is FALSE when the substitution
\* raised KeyError.
ReplacerSub(map, text) ==
    LET r == [k \in 1..Len(text) |-> SubToken(map, text[k])]
    IN  [ok   |-> \A k \in 1..Len(text) : r[k].ok,
         text |-> [k \in 1..Len(text) |-> r[k].tok]]

\* ------------------------------------------------------------------- times

\* SubRipTime.seconds: the seconds component of an ordinal.
SecondsOf(ordinal) == (ordinal % 60000) \div 1000

\* SubRipTime.from_ordinal(ordinal).to_time(): datetime.time raises
\* ValueError unless the hour is in 0..23; ok is FALSE then.
ToTime(ordinal) ==
    LET hours == IF ordinal < 0 THEN -1 - ((-1 - ordinal) \div 3600000)
                 ELSE ordinal \div 3600000
    IN  [ok          |-> hours >= 0 /\ hours <= 23,
         hour        |-> hours,
         minute      |-> (ordinal % 3600000) \div 60000,
         second      |-> (ordinal % 60000) \div 1000,
         microsecond |-> (ordinal % 1000) * 1000]

\* hour * 60.0 * 60.0 + minute * 60.0 + second + microsecond / 1000000.0,
\* kept in milliseconds (the value is printed with three decimals).
LineSeconds(t) ==
    t.hour * 3600000 + t.minute * 60000 + t.second * 1000
        + (t.microsecond \div 1000)

\* format(x, '.1f'), in milliseconds: the nearest tenth of a second.
FormatTenths(ms) == ((ms + 50) \div 100) * 100

\* ------------------------------------------------------------ the scrub loop

\* The dummy sub appended to the track: an int start is taken as an ordinal.
DummySub(subs) ==
    LET base == IF Len(subs) > 0 THEN SecondsOf(subs[Len(subs)].end) ELSE 0
    IN  [start |-> base + 1, end |-> base + 2, text |-> <<"Fin">>]

\* Loop state before the first sub.
ScrubStart(jsonDump) ==
    [prevNaughtySub    |-> NoneValue,
     newSubs           |-> << >>,
     newTimestampPairs |-> << >>,
     jsonDumpList      |-> IF jsonDump THEN << << >> >> ELSE NoneValue,
     decisions         |-> << >>,
     err               |-> "none"]

\* The retention test without its look back at the previous sub.
RetainNoLookback(dirty, peekDirty, sub, subPeek, prevNaughtySub, pad) ==
    \/ dirty
    \/ /\ pad > 0
       /\ peekDirty /\ (subPeek.start - sub.end) <= pad

\* The retention test of one (sub, subPeek) pair.
Retain(dirty, peekDirty, sub, subPeek, prevNaughtySub, pad) ==
    \/ dirty
    \/ /\ pad > 0
       /\ \/ peekDirty /\ (subPeek.start - sub.end) <= pad
          \/ /\ prevNaughtySub # NoneValue
             /\ (sub.start - prevNaughtySub[1].end) <= pad

\* Scrubbed decided by the matcher finding a word instead.
ScrubbedIfMatched(map, text, newText) ==
    \E k \in 1..Len(text) : HasWord(text[k]) /\ HasKey(map, text[k])

\* Whether a text counts as scrubbed: the substitution changed it.
Scrubbed(map, text, newText) == newText # text

\* The memory left as it was after a sub that was not scrubbed.
MemoryKept(prevNaughtySub) == prevNaughtySub

\* The memory of the previous sub after a sub that was not scrubbed.
MemoryAfterClean(prevNaughtySub) == NoneValue

\* NewTimes with the pad applied to every retained sub.
NewTimesPadAlways(sub, subScrubbed, pad) ==
    << ToTime(sub.start - pad), ToTime(sub.end + pad) >>

\* The timestamp pair of a retained sub: padded when it was scrubbed.
NewTimes(sub, subScrubbed, pad) ==
    IF subScrubbed
    THEN << ToTime(sub.start - pad), ToTime(sub.end + pad) >>
    ELSE << ToTime(sub.start), ToTime(sub.end) >>

\* The body of the loop for one (sub, subPeek) pair.
ScrubStep(map, pad, fullSubs, sub, subPeek, st) ==
    LET new     == ReplacerSub(map, sub.text)
        newPeek == ReplacerSub(map, subPeek.text)
        dirty   == Scrubbed(map, sub.text, new.text)
        keep    == Retain(dirty, Scrubbed(map, subPeek.text, newPeek.text),
                          sub, subPeek, st.prevNaughtySub, pad)
        times   == NewTimes(sub, dirty, pad)
        edit    == [old |-> sub.text, new |-> new.text,
                    start |-> sub.start, end |-> sub.end]
    IN  IF ~new.ok \/ ~newPeek.ok
        THEN [st EXCEPT !.err = "KeyError"]
        ELSE IF keep
        THEN [st EXCEPT
                !.jsonDumpList =
                    IF dirty /\ st.jsonDumpList # NoneValue
                    THEN << Append(st.jsonDumpList[1], edit) >>
                    ELSE st.jsonDumpList,
                !.newSubs = Append(@, [sub EXCEPT !.text = new.text]),
                !.prevNaughtySub =
                    IF dirty THEN << sub >>
                    ELSE MemoryAfterClean(st.prevNaughtySub),
                !.newTimestampPairs =
                    IF times[1].ok /\ times[2].ok THEN Append(@, times)
                    ELSE @,
                !.decisions =
                    IF times[1].ok /\ times[2].ok
                    THEN Append(@, [dirty |-> dirty, retained |-> TRUE])
                    ELSE @,
                !.err = IF times[1].ok /\ times[2].ok THEN "none"
                        ELSE "ValueError"]
        ELSE [st EXCEPT
                !.newSubs = IF fullSubs THEN Append(@, sub) ELSE @,
                !.prevNaughtySub = MemoryAfterClean(st.prevNaughtySub),
                !.decisions = Append(@, [dirty |-> FALSE, retained |-> FALSE])]

\* for sub, subPeek in pairwise(subs), from pair k on; an exception ends it.
RECURSIVE ScrubLoop(_, _, _, _, _, _)
ScrubLoop(map, pad, fullSubs, pairs, k, st) ==
    IF k > Len(pairs) \/ st.err # "none" THEN st
    ELSE ScrubLoop(map, pad, fullSubs, pairs, k + 1,
                   ScrubStep(map, pad, fullSubs, pairs[k][1], pairs[k][2], st))

\* newSubs.text.strip_style(): the emitted cues without styling tokens.
StripStyle(subs) ==
    [k \in 1..Len(subs) |->
        [subs[k] EXCEPT !.text = SelectSeq(@, LAMBDA t : ~IsTag(t))]]

\* --------------------------------------------------------- the timeline walk

\* The two afade directives of one (timePair, timePairPeek) pair.
FadeOut(lineStart, lineEnd) ==
    [t |-> "out", from |-> lineStart, to |-> lineEnd, st |-> lineStart]

\* The fade-in with its window bounds in the opposite order.
FadeInSwapped(lineEnd, lineStartPeek) ==
    [t |-> "in", from |-> lineStartPeek, to |-> lineEnd, st |-> lineEnd]

FadeIn(lineEnd, lineStartPeek) ==
    [t |-> "in", from |-> lineEnd, to |-> lineStartPeek, st |-> lineEnd]

\* The pairs the walk visits.
WalkPairs(newTimestampPairs) == pairwise(newTimestampPairs)

\* The body of the walk for one (timePair, timePairPeek) pair.
WalkStep(edl, plex, timePair, timePairPeek, w) ==
    LET lineStart     == LineSeconds(timePair[1])
        lineEnd       == LineSeconds(timePair[2])
        lineStartPeek == LineSeconds(timePairPeek[1])
    IN  [muteTimeList |-> w.muteTimeList
                            \o << FadeOut(lineStart, lineEnd),
                                  FadeIn(lineEnd, lineStartPeek) >>,
         edlLines     |-> IF edl
                          THEN Append(w.edlLines,
                                      [start |-> FormatTenths(lineStart),
                                       end |-> lineEnd, action |-> 1])
                          ELSE w.edlLines,
         markers      |-> IF plex
                          THEN Append(w.markers,
                                      [start |-> lineStart, end |-> lineEnd,
                                       mode |-> "volume"])
                          ELSE w.markers]

RECURSIVE WalkLoop(_, _, _, _, _)
WalkLoop(edl, plex, pairs, k, w) ==
    IF k > Len(pairs) THEN w
    ELSE WalkLoop(edl, plex, pairs, k + 1,
                  WalkStep(edl, plex, pairs[k][1], pairs[k][2], w))

Walk(edl, plex, newTimestampPairs) ==
    WalkLoop(edl, plex, WalkPairs(newTimestampPairs), 1,
             [muteTimeList |-> << >>, edlLines |-> << >>, markers |-> << >>])

\* ------------------------------------------------------------ the whole pass

\* Everything CreateCleanSubAndMuteList computes and writes, from the
\* dictionary it finds and the instance's inputs.  A file is NoneValue when
\* it is not written and << content >> when it is.
PassResult(map0, in) ==
    LET map  == LoadSwears(map0, in.swearsFile)
        subs == Append(in.inputSubs, DummySub(in.inputSubs))
        st   == ScrubLoop(map, in.swearsPadMillisec, in.fullSubs,
                          pairwise(subs), 1, ScrubStart(in.jsonDump))
        w    == Walk(in.edl, in.plexAutoSkip, st.newTimestampPairs)
        ok   == st.err = "none"
    IN  [err               |-> st.err,
         decisions         |-> st.decisions,
         jsonDumpList      |-> st.jsonDumpList,
         newTimestampPairs |-> IF ok THEN st.newTimestampPairs ELSE << >>,
         muteTimeList      |-> IF ok THEN w.muteTimeList ELSE << >>,
         cleanSubsFile     |-> IF ok THEN << StripStyle(st.newSubs) >>
                               ELSE NoneValue,
         jsonFile          |-> IF ok /\ st.jsonDumpList # NoneValue
                               THEN << st.jsonDumpList[1] >> ELSE NoneValue,
         edlFile           |-> IF ok /\ in.edl /\ Len(w.edlLines) > 0
                               THEN << w.edlLines >> ELSE NoneValue,
         plexFile          |-> IF ok /\ in.plexAutoSkip /\ Len(w.markers) > 0
                               THEN << w.markers >> ELSE NoneValue]

\* ------------------------------------------------------------------- state

VARIABLES
    pc,            \* "idle", "constructed", "done" or "error"
    runs,          \* VidCleaner instances created so far in this process
    rescrub,       \* whether the instance reads the track the last one wrote
    swearsMap,     \* VidCleaner.swearsMap, the class attribute
    inst,          \* the instance's inputs and options
    res,           \* what the instance's pass computed and wrote
    enc,           \* the instance's options for MultiplexCleanVideo
    unalteredVideo,\* self.unalteredVideo
    disk,          \* which of the instance's output files exist
    deleted        \* whether __del__ has run on the instance

vars == << pc, runs, rescrub, swearsMap, inst, res, enc, unalteredVideo,
           disk, deleted >>

\* ------------------------------------------------------------------ inputs

\* The tracks of n cues, ordered by start: each cue starts a gap after the
\* end of the one before it.
RECURSIVE TracksOfLen(_)
TracksOfLen(n) ==
    IF n = 0 THEN { << >> }
    ELSE { Append(tr,
                  LET last == IF Len(tr) = 0 THEN 0 ELSE tr[Len(tr)].end
                  IN  [start |-> last + g, end |-> last + g + l, text |-> x])
           : tr \in TracksOfLen(n - 1), g \in Gaps, l \in CueLens,
             x \in CueTexts }

Tracks == UNION { TracksOfLen(n) : n \in 0..MaxCues }

\* The arguments of VidCleaner(...) that the pass reads.
Instances(tracks, files, pads) ==
    [inputSubs : tracks, swearsFile : files, swearsPadMillisec : pads,
     fullSubs : BOOLEAN, edl : BOOLEAN, plexAutoSkip : BOOLEAN,
     jsonDump : BOOLEAN]

\* The instances of a process that creates several: short tracks, no pad.
ProcInstances ==
    [inputSubs : { << [start |-> 2000, end |-> 3000, text |-> x] >>
                   : x \in { <<"hi">>, <<"heck">>, <<"darn">> } },
     swearsFile : { << <<"heck">> >>,
                    << <<"heck", "|", "darn">>, <<"darn", "|", "gosh">> >> },
     swearsPadMillisec : {0},
     fullSubs : BOOLEAN, edl : {TRUE}, plexAutoSkip : {FALSE},
     jsonDump : BOOLEAN]

NoInstance ==
    [inputSubs |-> << >>, swearsFile |-> << >>, swearsPadMillisec |-> 0,
     fullSubs |-> FALSE, edl |-> FALSE, plexAutoSkip |-> FALSE,
     jsonDump |-> FALSE]

\* The arguments of VidCleaner(...) that MultiplexCleanVideo reads.
Encodings ==
    [embedSubs : BOOLEAN, subsOnly : BOOLEAN, reEncodeVideo : BOOLEAN,
     reEncodeAudio : BOOLEAN, hardCode : BOOLEAN, aDownmix : BOOLEAN]

\* The defaults of those arguments.
NoEncoding ==
    [embedSubs |-> FALSE, subsOnly |-> FALSE, reEncodeVideo |-> FALSE,
     reEncodeAudio |-> FALSE, hardCode |-> FALSE, aDownmix |-> FALSE]

\* The instances of a whole run: no cue or two cues, one vocabulary.
RunInstances ==
    Instances(TracksOfLen(0)
                \cup { tr \in TracksOfLen(2) :
                         \A k \in 1..Len(tr) :
                             tr[k].text \in { <<"hi">>, <<"heck">> } },
              { << <<"heck">> >> }, Pads)

\* No output file of the instance exists.
NoFiles ==
    [cleanSubs |-> FALSE, json |-> FALSE, edl |-> FALSE, plex |-> FALSE,
     ass |-> FALSE, outputVid |-> FALSE]

\* The state of an instance whose pass has not run.
NoResult ==
    [err |-> "none", decisions |-> << >>, jsonDumpList |-> NoneValue,
     newTimestampPairs |-> << >>, muteTimeList |-> << >>,
     cleanSubsFile |-> NoneValue, jsonFile |-> NoneValue,
     edlFile |-> NoneValue, plexFile |-> NoneValue]

\* ----------------------------------------------------------------- actions

Init ==
    /\ pc = "idle"
    /\ runs = 0
    /\ rescrub = FALSE
    /\ swearsMap = EmptyMap
    /\ inst = NoInstance
    /\ res = NoResult
    /\ enc = NoEncoding
    /\ unalteredVideo = FALSE
    /\ disk = NoFiles
    /\ deleted = FALSE

\* VidCleaner.__init__ with arguments i.  The class attribute swearsMap is
\* not assigned; every instance is given output paths of its own, and an
\* output video or cleaned track already at those paths is removed.
NewInstance(i) ==
    /\ inst' = i
    /\ res' = [NoResult EXCEPT
                 !.jsonDumpList = IF i.jsonDump THEN << << >> >> ELSE NoneValue]
    /\ pc' = "constructed"
    /\ runs' = runs + 1
    /\ unalteredVideo' = FALSE
    /\ disk' = NoFiles
    /\ deleted' = FALSE
    /\ UNCHANGED swearsMap

\* The first instance of a process.
Construct ==
    /\ pc = "idle"
    /\ rescrub' = FALSE
    /\ enc' = NoEncoding
    /\ \E i \in Instances(Tracks, SwearsFiles, Pads) : NewInstance(i)

\* A later instance of the same process, after the last one is finished.
ConstructNext ==
    /\ pc \in {"idle", "done", "error"}
    /\ runs < MaxRuns
    /\ rescrub' = FALSE
    /\ enc' = NoEncoding
    /\ \E i \in ProcInstances : NewInstance(i)

\* An instance that scrubs, without pad, the track the last one wrote, with
\* the same vocabulary file.
ConstructOnOutput ==
    /\ pc = "done"
    /\ ~rescrub
    /\ rescrub' = TRUE
    /\ UNCHANGED enc
    /\ NewInstance([inst EXCEPT !.inputSubs = res.cleanSubsFile[1],
                                !.swearsPadMillisec = 0])

\* VidCleaner.CreateCleanSubAndMuteList, to its return or its exception.
CreateCleanSubAndMuteList ==
    /\ pc = "constructed"
    /\ swearsMap' = LoadSwears(swearsMap, inst.swearsFile)
    /\ res' = PassResult(swearsMap, inst)
    /\ pc' = IF res'.err = "none" THEN "done" ELSE "error"
    /\ disk' = [disk EXCEPT !.cleanSubs = res'.cleanSubsFile # NoneValue,
                            !.json = res'.jsonFile # NoneValue,
                            !.edl = res'.edlFile # NoneValue,
                            !.plex = res'.plexFile # NoneValue]
    /\ UNCHANGED << runs, rescrub, inst, enc, unalteredVideo, deleted >>

\* The first instance of a process that goes on to multiplex.
ConstructRun ==
    /\ pc = "idle"
    /\ rescrub' = FALSE
    /\ \E i \in RunInstances, e \in Encodings :
          /\ enc' = e
          /\ NewInstance(i)

\* self.subsOnly as __init__ sets it.
SubsOnly == enc.subsOnly \/ inst.edl \/ inst.plexAutoSkip

\* Whether MultiplexCleanVideo has to generate a video file.
MustEncode ==
    \/ enc.reEncodeVideo
    \/ enc.reEncodeAudio
    \/ enc.hardCode
    \/ enc.embedSubs
    \/ (~SubsOnly /\ Len(res.muteTimeList) > 0)

\* AUDIO_DOWNMIX_FILTER as an entry of muteTimeList.
DownmixFilter == [t |-> "pan", from |-> 0, to |-> 0, st |-> 0]

\* VidCleaner.MultiplexCleanVideo, to its return or its exception.  The
\* encoder is outside the program: its return code, and whether it left a
\* file at the output path, are whatever it produces.
MultiplexCleanVideo ==
    /\ pc = "done"
    /\ ~deleted
    /\ \/ /\ ~MustEncode
          /\ unalteredVideo' = TRUE
          /\ pc' = "muxed"
          /\ UNCHANGED << res, disk >>
       \/ /\ MustEncode
          /\ enc.hardCode /\ disk.cleanSubs
          /\ \E wrote \in BOOLEAN :
                disk' = [disk EXCEPT !.ass = wrote]
          /\ pc' = "failed"
          /\ UNCHANGED << res, unalteredVideo >>
       \/ /\ MustEncode
          /\ \E moreThanStereo \in BOOLEAN :
                res' = [res EXCEPT !.muteTimeList =
                          IF enc.aDownmix /\ moreThanStereo
                          THEN << DownmixFilter >> \o @ ELSE @]
          /\ \E returnCode \in {0, 1}, wrote \in BOOLEAN :
                /\ disk' = [disk EXCEPT
                              !.ass = enc.hardCode /\ disk.cleanSubs,
                              !.outputVid = wrote]
                /\ pc' = IF returnCode # 0 \/ ~wrote THEN "failed"
                         ELSE "muxed"
          /\ UNCHANGED unalteredVideo
    /\ UNCHANGED << runs, rescrub, swearsMap, inst, enc, deleted >>

\* VidCleaner.__del__, once the run has returned or raised.
Del ==
    /\ pc \in {"error", "muxed", "failed"}
    /\ ~deleted
    /\ deleted' = TRUE
    /\ disk' = IF ~disk.outputVid /\ ~unalteredVideo
               THEN [disk EXCEPT !.cleanSubs = FALSE, !.edl = FALSE,
                                 !.json = FALSE, !.ass = FALSE]
               ELSE [disk EXCEPT !.ass = FALSE]
    /\ UNCHANGED << pc, runs, rescrub, swearsMap, inst, res, enc,
                    unalteredVideo >>

Next == Construct \/ ConstructOnOutput \/ CreateCleanSubAndMuteList

Spec == Init /\ [][Next]_vars

NextProc == ConstructNext \/ CreateCleanSubAndMuteList

SpecProc == Init /\ [][NextProc]_vars

NextRun ==
    \/ ConstructRun
    \/ CreateCleanSubAndMuteList
    \/ MultiplexCleanVideo
    \/ Del

SpecRun == Init /\ [][NextRun]_vars

\* ----------------------------------------------------------------------
\* Properties
\* ----------------------------------------------------------------------

\* A timestamp pair of the list handed to the walk, as [start, end] in
\* milliseconds.
PairMs(p) == << LineSeconds(p[1]), LineSeconds(p[2]) >>

MuteIntervals == [k \in 1..Len(res.newTimestampPairs) |->
                    PairMs(res.newTimestampPairs[k])]

Cues == inst.inputSubs
Pad == inst.swearsPadMillisec

\* The loop's verdict on real cue i of a finished pass.
IsDirty(i) == res.decisions[i].dirty
IsRetained(i) == res.decisions[i].retained

DirtyFlags == [i \in 1..Len(res.decisions) |-> IsDirty(i)]
RetainedFlags == [i \in 1..Len(res.decisions) |-> IsRetained(i)]

\* The intervals of the cues i..Len(Cues) with keep[i], in cue
\* order: padded for a dirty cue, the cue's own bounds for a clean one.
RECURSIVE IntervalsFrom(_, _)
IntervalsFrom(i, keep) ==
    IF i > Len(Cues) THEN << >>
    ELSE (IF keep[i]
          THEN << IF IsDirty(i)
                  THEN << Cues[i].start - Pad, Cues[i].end + Pad >>
                  ELSE << Cues[i].start, Cues[i].end >> >>
          ELSE << >>) \o IntervalsFrom(i + 1, keep)

C2_FadeOutPerInterval ==
    (pc = "done" /\ Len(MuteIntervals) >= 1) =>
        /\ Len(res.muteTimeList) = 2 * Len(MuteIntervals) - 1
        /\ \A k \in 1..Len(MuteIntervals) :
              \E d \in 1..Len(res.muteTimeList) :
                  res.muteTimeList[d] =
                      FadeOut(MuteIntervals[k][1], MuteIntervals[k][2])
        /\ \A k \in 1..(Len(MuteIntervals) - 1) :
              \E d \in 1..Len(res.muteTimeList) :
                  res.muteTimeList[d] =
                      FadeIn(MuteIntervals[k][2], MuteIntervals[k + 1][1])

\* C3: with the cut list enabled, the cut-list file has exactly one line
\* per mute interval, in interval order, and it is written if and only if
\* at least one mute interval exists.
C3_EdlLinePerInterval ==
    (pc = "done" /\ inst.edl) =>
        /\ (res.edlFile # NoneValue) <=> (Len(MuteIntervals) >= 1)
        /\ res.edlFile # NoneValue =>
              /\ Len(res.edlFile[1]) = Len(MuteIntervals)
              /\ \A k \in 1..Len(MuteIntervals) :
                    res.edlFile[1][k].end = MuteIntervals[k][2]

\* C4: with skip markers requested, the marker list holds exactly one
\* {start, end, mode: "volume"} entry per mute interval, in whole
\* milliseconds, and the file is written if and only if at least one mute
\* interval exists.
C4_MarkerPerInterval ==
    (pc = "done" /\ inst.plexAutoSkip) =>
        /\ (res.plexFile # NoneValue) <=> (Len(MuteIntervals) >= 1)
        /\ res.plexFile # NoneValue =>
              res.plexFile[1] =
                  [k \in 1..Len(MuteIntervals) |->
                      [start |-> MuteIntervals[k][1],
                       end |-> MuteIntervals[k][2], mode |-> "volume"]]

\* The cues the loop pairs up: the track and the dummy sub after it.
Subs == Append(Cues, DummySub(Cues))

\* Whether the successor of real cue i is dirty; the successor of the last
\* real cue is the dummy sub.
SuccDirty(i) ==
    IF i < Len(Cues) THEN IsDirty(i + 1)
    ELSE ReplacerSub(swearsMap, Subs[i + 1].text).text # Subs[i + 1].text

\* C5: in a finished pass a real cue c is retained if and only if (1) c is
\* dirty, or (2) the pad is positive, c's immediate successor in the loop
\* is dirty and successor.start - c.end <= pad, or (3) the pad is positive,
\* the cue immediately before c was dirty and c.start - thatCue.end <= pad;
\* the look back is single-hop, so nothing before the immediate predecessor
\* counts.
C5_Retention ==
    pc = "done" =>
        \A i \in 1..Len(Cues) :
            IsRetained(i) <=>
                \/ IsDirty(i)
                \/ /\ Pad > 0
                   /\ SuccDirty(i)
                   /\ Subs[i + 1].start - Cues[i].end <= Pad
                \/ /\ Pad > 0
                   /\ i > 1
                   /\ IsDirty(i - 1)
                   /\ Cues[i].start - Cues[i - 1].end <= Pad

\* C5 witness: a finished pass with a pad over a dirty cue, a clean cue
\* retained by the look back, and a third clean cue that starts within the
\* pad of the dirty cue's end and is dropped.
C5_Witness ==
    /\ pc = "done"
    /\ Pad > 0
    /\ Len(Cues) = 3
    /\ IsDirty(1)
    /\ ~IsDirty(2) /\ IsRetained(2)
    /\ ~IsDirty(3) /\ ~IsRetained(3)
    /\ Cues[3].start - Cues[1].end <= Pad

\* The cleaned track as written.
Emitted == res.cleanSubsFile[1]

\* Where real cue j lies in the cleaned track and in the list of timestamp
\* pairs, when it is there.
EmittedIndex(j) ==
    Cardinality({k \in 1..j : IsRetained(k) \/ inst.fullSubs})
PairIndex(j) == Cardinality({k \in 1..j : IsRetained(k)})

\* Real cue j is in the cleaned track with its own start and end.
EmittedUnpadded(j) ==
    /\ IsRetained(j) \/ inst.fullSubs
    /\ Emitted[EmittedIndex(j)].start = Cues[j].start
    /\ Emitted[EmittedIndex(j)].end = Cues[j].end

\* C6 as stated: with a pad P > 0, every clean cue whose start lies within
\* P milliseconds after the end of a dirty cue is in the scrubbed cue
\* sequence, with its own start and end.
C6_AfterAnyDirtyCue ==
    (pc = "done" /\ Pad > 0) =>
        \A i, j \in 1..Len(Cues) :
            ( /\ IsDirty(i) /\ ~IsDirty(j)
              /\ Cues[j].start - Cues[i].end >= 0
              /\ Cues[j].start - Cues[i].end <= Pad )
            => EmittedUnpadded(j)

\* C6 amended: with a pad P > 0, every clean cue whose start lies within P
\* milliseconds after the end of the dirty cue immediately before it in the
\* track is retained, with its own start and end in the scrubbed cue
\* sequence and in its timestamp pair.
C6_AfterPreviousDirtyCue ==
    (pc = "done" /\ Pad > 0) =>
        \A j \in 2..Len(Cues) :
            ( /\ IsDirty(j - 1) /\ ~IsDirty(j)
              /\ Cues[j].start - Cues[j - 1].end >= 0
              /\ Cues[j].start - Cues[j - 1].end <= Pad )
            => /\ IsRetained(j)
               /\ EmittedUnpadded(j)
               /\ MuteIntervals[PairIndex(j)]
                    = << Cues[j].start, Cues[j].end >>

\* C6 witness: a finished pass, not in full-subtitle mode, in which a clean
\* cue within the pad after the dirty cue before it is retained and no
\* dirty cue follows it.
C6_Witness ==
    /\ pc = "done"
    /\ Pad > 0
    /\ ~inst.fullSubs
    /\ \E j \in 2..Len(Cues) :
          /\ IsDirty(j - 1) /\ ~IsDirty(j)
          /\ Cues[j].start - Cues[j - 1].end >= 0
          /\ Cues[j].start - Cues[j - 1].end <= Pad
          /\ ~SuccDirty(j)
          /\ IsRetained(j)

\* C7: with an empty vocabulary file the pass raises no error, no cue is
\* classified dirty and the pass yields no mute interval, whatever the pad.
C7_EmptyVocabulary ==
    (pc \in {"done", "error"} /\ inst.swearsFile = << >>) =>
        /\ res.err = "none"
        /\ \A i \in 1..Len(res.decisions) : ~IsDirty(i)
        /\ Len(res.newTimestampPairs) = 0

\* The vocabulary file read line by line: the replacement a word is
\* configured to have, which is that of the last line whose pattern is the
\* word in any letter case, the mask when the line has no separator.
LineReplacement(line) ==
    IF Len(line) = 1 THEN "*****"
    ELSE IF Len(line) = 2 THEN "" ELSE line[3]

LinesFor(file, w) ==
    {k \in 1..Len(file) : HasWord(w) /\ Lower(file[k][1]) = Lower(w)}

Configured(file, w) ==
    IF LinesFor(file, w) = {} THEN w
    ELSE LineReplacement(
             file[CHOOSE k \in LinesFor(file, w) :
                      \A j \in LinesFor(file, w) : j <= k])

ConfiguredText(file, text) ==
    [k \in 1..Len(text) |-> Configured(file, text[k])]

WithoutTags(text) == SelectSeq(text, LAMBDA t : ~IsTag(t))

ContainsPattern(file, text) ==
    \E k \in 1..Len(text) : LinesFor(file, text[k]) # {}

\* What being classified dirty brings: the cue is retained, its timestamp
\* pair is padded and, with the edit log on, it has an edit record.
TreatedAsDirty(i) ==
    /\ IsDirty(i)
    /\ IsRetained(i)
    /\ MuteIntervals[PairIndex(i)]
         = << Cues[i].start - Pad, Cues[i].end + Pad >>
    /\ inst.jsonDump =>
          \E e \in 1..Len(res.jsonDumpList[1]) :
              res.jsonDumpList[1][e] =
                  [old |-> Cues[i].text,
                   new |-> ConfiguredText(inst.swearsFile, Cues[i].text),
                   start |-> Cues[i].start, end |-> Cues[i].end]

\* C8 as stated: every cue whose text contains a vocabulary pattern as a
\* whole word in any letter case, for every vocabulary file (entries whose
\* replacement equals the matched word included), is emitted with the word
\* replaced by the configured replacement and is classified dirty.
C8_MatchMeansDirty ==
    pc = "done" =>
        \A i \in 1..Len(Cues) :
            ContainsPattern(inst.swearsFile, Cues[i].text) =>
                /\ TreatedAsDirty(i)
                /\ Emitted[EmittedIndex(i)].text =
                     WithoutTags(ConfiguredText(inst.swearsFile, Cues[i].text))

\* C8 amended: every emitted cue whose text contains a vocabulary pattern as
\* a whole word in any letter case has that word replaced by the configured
\* replacement, and the cue is classified dirty (retained, padded timestamp
\* pair, edit record) if and only if the replacement changes its text.
C8_ChangeMeansDirty ==
    pc = "done" =>
        \A i \in 1..Len(Cues) :
            LET new == ConfiguredText(inst.swearsFile, Cues[i].text)
            IN  /\ IsDirty(i) <=> new # Cues[i].text
                /\ IsDirty(i) => TreatedAsDirty(i)
                /\ (IsRetained(i) \/ inst.fullSubs) =>
                      Emitted[EmittedIndex(i)].text = WithoutTags(new)

\* C8 witness: a finished pass that emits a cue whose word, written in
\* another letter case than the pattern, was replaced, with the edit log on.
C8_Witness ==
    /\ pc = "done"
    /\ inst.jsonDump
    /\ \E i \in 1..Len(Cues) :
          /\ Cues[i].text = <<"<i>", "HECK">>
          /\ IsDirty(i)
          /\ Emitted[EmittedIndex(i)].text = <<"darn">>

\* The second pass found nothing: it ended without error, classified no
\* cue dirty, and made no mute interval and no edit record.
NothingFurther ==
    /\ pc = "done"
    /\ \A i \in 1..Len(res.decisions) : ~IsDirty(i)
    /\ Len(res.newTimestampPairs) = 0
    /\ res.jsonDumpList \in {NoneValue, << << >> >>}

\* No replacement of the vocabulary file is itself changed by the file.
StableVocabulary(file) ==
    \A k \in 1..Len(file) :
        Configured(file, LineReplacement(file[k])) = LineReplacement(file[k])

C10_Determinism ==
    pc \in {"done", "error"} => res = PassResult(EmptyMap, inst)

\* The last line of the vocabulary file for the pattern of line k.
IsLastLineFor(file, k) ==
    \A j \in (k + 1)..Len(file) : Lower(file[j][1]) # Lower(file[k][1])

\* C11: loading a vocabulary line maps its pattern to the text after the
\* "|" when that text is not empty, and to the mask "*****" both when the
\* line has no "|" and when nothing follows the "|".
C11_BlankIsMask ==
    pc \in {"done", "error"} =>
        \A k \in 1..Len(inst.swearsFile) :
            LET line == inst.swearsFile[k]
            IN  IsLastLineFor(inst.swearsFile, k) =>
                    /\ HasKey(swearsMap, line[1])
                    /\ GetItem(swearsMap, line[1]) =
                         IF Len(line) >= 3 /\ line[3] # "" THEN line[3]
                         ELSE "*****"

\* The retention of the last real cue as if it had no successor: only its
\* own dirtiness and the look back at the cue before it count.
RetainedWithoutSuccessor(i) ==
    \/ IsDirty(i)
    \/ /\ Pad > 0
       /\ i > 1
       /\ IsDirty(i - 1)
       /\ Cues[i].start - Cues[i - 1].end <= Pad

\* C13: the terminal cue appended after the last real cue starts and ends
\* later than every real cue ends, is never emitted into the cleaned track
\* or the mute intervals, and is only a lookahead target: the last real cue
\* is retained exactly as it would be with no successor.
C13_TerminalCue ==
    (pc = "done" /\ Len(Cues) > 0) =>
        LET dummy == DummySub(Cues)
            kept  == Cardinality({i \in 1..Len(Cues) : IsRetained(i)})
        IN  /\ \A i \in 1..Len(Cues) :
                  dummy.start > Cues[i].end /\ dummy.end > Cues[i].end
            /\ Len(Emitted) = kept
            /\ Len(MuteIntervals) = kept
            /\ IsRetained(Len(Cues)) <=> RetainedWithoutSuccessor(Len(Cues))

\* The lookahead half of C13 alone: the last real cue is retained exactly
\* as it would be with no successor.
C13_LastCueAsIfAlone ==
    (pc = "done" /\ Len(Cues) > 0) =>
        (IsRetained(Len(Cues)) <=> RetainedWithoutSuccessor(Len(Cues)))

\* The real cue behind timeline entry k: the k-th retained cue.
RetainedCue(k) ==
    CHOOSE i \in 1..Len(Cues) : IsRetained(i) /\ PairIndex(i) = k

\* The pad applied on each side of a retained cue: none for a clean one.
PadOf(i) == IF IsDirty(i) THEN Pad ELSE 0

WellFormed(d) == d.from <= d.to

\* C14 as stated: every fade directive of a finished pass has window
\* start <= window end, fade-out and fade-in alike, also when the padded
\* intervals of neighbouring cues overlap or touch.
C14_WindowsWellFormed ==
    pc = "done" =>
        \A d \in 1..Len(res.muteTimeList) : WellFormed(res.muteTimeList[d])

\* C14 amended: in a finished pass over a track ordered by start with
\* start <= end per cue, every fade-out window [a.start, a.end] has
\* start <= end; the fade-in window [a.end, b.start] between consecutive
\* timeline entries a, b has start <= end exactly when the gap between the
\* two cues is at least the pads applied to a's end and b's start, and is
\* reversed when the padded intervals overlap.
C14_WellFormedWhenApart ==
    pc = "done" =>
        \A k \in 1..(Len(res.muteTimeList) \div 2) :
            LET a == RetainedCue(k)
                b == RetainedCue(k + 1)
            IN  /\ res.muteTimeList[2 * k - 1].t = "out"
                /\ WellFormed(res.muteTimeList[2 * k - 1])
                /\ res.muteTimeList[2 * k].t = "in"
                /\ WellFormed(res.muteTimeList[2 * k]) <=>
                       Cues[b].start - Cues[a].end >= PadOf(a) + PadOf(b)

\* C14 witness: a finished pass with a pad whose walk emitted a fade-in
\* with a well-formed window and a fade-in with a reversed one.
C14_Witness ==
    /\ pc = "done"
    /\ Pad > 0
    /\ \E d, e \in 1..Len(res.muteTimeList) :
          /\ res.muteTimeList[d].t = "in" /\ WellFormed(res.muteTimeList[d])
          /\ res.muteTimeList[e].t = "in" /\ ~WellFormed(res.muteTimeList[e])

\* C15: for every dirty cue c and pad P >= 0, also when c.start < P, the
\* start c.start - P of its padded pair is not negative and the pass
\* completes without an error from the time conversion.
C15_NonNegativeStart ==
    pc \in {"done", "error"} =>
        /\ res.err # "ValueError"
        /\ \A k \in 1..Len(res.newTimestampPairs) : MuteIntervals[k][1] >= 0

\* Whether the finished run failed: in the pass or in the encoder step.
RunFailed == pc \in {"error", "failed"}

\* C12: once __del__ has run after a failure at any step of a run, none of
\* the artifacts of that run remains (cleaned track, edit log, cut list,
\* skip-marker file); after a run in which no step failed, every requested
\* artifact the pass wrote is present.
C12_AllOrNothing ==
    deleted =>
        IF RunFailed
        THEN ~disk.cleanSubs /\ ~disk.json /\ ~disk.edl /\ ~disk.plex
        ELSE /\ disk.cleanSubs
             /\ inst.jsonDump => disk.json
             /\ res.edlFile # NoneValue => disk.edl
             /\ res.plexFile # NoneValue => disk.plex

====
